---- MODULE Spec2Model ----
(***************************************************************************)
(* Keychain (src/pm_main.js): an encrypted domain -> password store with   *)
(* dump/load persistence, together with the buffer utilities of            *)
(* src/lib.js.                                                             *)
(*                                                                         *)
(* Cryptographic primitives are symbolic terms: PBKDF2, AES-GCM, HMAC and  *)
(* SHA-256 are deterministic and collision free, AES-GCM decryption        *)
(* succeeds only under the key and iv of the encryption.                   *)
(*                                                                         *)
(* A JavaScript string is a sequence of characters.  "BOM" is U+FEFF, "LS" *)
(* a lone surrogate code unit, "RC" the replacement character U+FFFD; the  *)
(* UTF-8 bytes of one character are one element of a byte sequence.        *)
(*                                                                         *)
(* this.kvs is a plain object literal: its own properties are the function *)
(* kvs, and proto is the object its prototype link points to.              *)
(***************************************************************************)
EXTENDS Naturals, Sequences, FiniteSets, TLC

VARIABLES
    kc,         \* the keychains: k1 made by init, k2 the result of the last load
    dumps,      \* what the dump calls on k1 returned
    nsets,      \* number of set calls made
    expected,   \* per domain, the value of the last set not followed by a remove
    origin,     \* the password and the dump the keychain k2 was loaded from
    tampered,   \* the domains whose stored records an adversary has swapped
    res,        \* the last call and what it returned or threw
    inflight,   \* the keychain calls started on k1 and how far each has got
    userDatabase,   \* the server's users: username -> what /setup stored
    reqs        \* the HTTP requests received and how far each has got

vars == <<kc, dumps, nsets, expected, origin, tampered, res,
          inflight, userDatabase, reqs>>

\* what the calls of one client on its keychains leave alone
server == <<inflight, userDatabase, reqs>>

-----------------------------------------------------------------------------
(* Bounds of the exploration *)

MaxSets == 1        \* set calls before and between the dumps of Spec
MaxDumps == 2       \* dumps of the initialised keychain a client keeps
MaxCalls == 3       \* set and get calls started on the keychain of ConcSpec
MaxRequests == 3    \* HTTP requests the server of ServerSpec receives

(* Inputs *)

InitPasswords == {"password123!"}

Passwords == {"password123!", "fakepassword"}

Domains == {"service1", "constructor", "__proto__"}

Values == {<<"v", "1">>, <<"v", "2">>, <<"BOM", "v", "1">>, <<"LS">>}

Salts == {"saltA"}
Usernames == {"alice", "constructor"}

IVs == {"ivA"}

None == [none |-> TRUE]

-----------------------------------------------------------------------------
(* src/lib.js *)

\* Buffer.from(str): UTF-8 encoding; a lone surrogate is encoded as U+FFFD
StringToBuffer(str) ==
    [i \in 1..Len(str) |-> IF str[i] = "LS" THEN "RC" ELSE str[i]]

\* TextDecoder("utf-8").decode on UTF-8 text: a leading byte order mark is
\* dropped (ignoreBOM is false)
BufferToString(buffer) ==
    IF Len(buffer) > 0 /\ buffer[1] = "BOM" THEN Tail(buffer) ELSE buffer

\* TextDecoder("utf-8").decode on the raw bytes of a digest: a deterministic
\* text of the digest
DigestToString(digest) == [utf8 |-> digest]

EncodeBuffer(buffer) == [b64 |-> buffer]

DecodeBuffer(base64String) == base64String.b64

-----------------------------------------------------------------------------
(* JavaScript values *)

Undefined == [t |-> "undefined"]

Null == [kind |-> "null"]

Returns(str) == [kind |-> "value", str |-> str]

ReturnsBool(b) == [kind |-> "bool", b |-> b]

Throws(msg) == [kind |-> "throw", msg |-> msg]

ReturnsKeychain == [kind |-> "keychain"]

\* Object.prototype: the prototype of the object literal {}
ObjectPrototype == [builtin |-> "Object.prototype"]

ObjectPrototypeProps ==
    {"constructor", "toString", "valueOf", "hasOwnProperty", "__proto__"}

NoKeychain == [absent |-> TRUE]

\* JSON.stringify writes the own enumerable properties of an object, never
\* what the object inherits through its prototype link
JsonStringify(obj) == [t |-> "string", json |-> obj]

JsonParse(text) == text.json

\* JSON.parse throws a SyntaxError on a text that is no JSON
Parsable(text) == "json" \in DOMAIN text

\* obj.name, or the name destructured from obj: undefined when obj has none
Member(obj, name) == IF name \in DOMAIN obj THEN obj[name] ELSE Undefined

-----------------------------------------------------------------------------
(* Web Crypto primitives *)

Pbkdf2(password, salt) == [pbkdf2 |-> password, salt |-> salt]

AesGcmEncrypt(key, iv, plain) == [aesgcm |-> plain, key |-> key, iv |-> iv]

AesGcmDecrypt(key, iv, data) ==
    IF data.key = key /\ data.iv = iv
    THEN [ok |-> TRUE, buf |-> data.aesgcm]
    ELSE [ok |-> FALSE]

HmacSign(key, bytes) == [hmac |-> bytes, key |-> key]

Sha256(bytes) == [sha256 |-> bytes]

-----------------------------------------------------------------------------
(* class Keychain, src/pm_main.js *)

\* a key derivation that leaves the password out
DeriveKeyFromSalt(password, salt) == Pbkdf2("", salt)

\* deriveKey: PBKDF2 of the password under the salt
DeriveKey(password, salt) == Pbkdf2(password, salt)

\* constructor followed by init
KeychainInit(password, salt) ==
    [kvs |-> <<>>, proto |-> ObjectPrototype,
     masterKey |-> DeriveKey(password, salt), salt |-> salt]

\* a checksum that covers the salt and leaves the records out
ComputeChecksumOfSalt(data) == DigestToString(Sha256(JsonParse(data).salt))

\* computeChecksum: SHA-256 of the text, no key involved
ComputeChecksum(data) == DigestToString(Sha256(data))

\* TextEncoder.encode: UTF-8, a lone surrogate becomes U+FFFD
TextEncoderEncode(data) ==
    [i \in 1..Len(data) |-> IF data[i] = "LS" THEN "RC" ELSE data[i]]

\* computeHMAC: HMAC-SHA-256 under the exported master key (the master key
\* is set in every keychain init or load returns, so the guard on a missing
\* key never fires)
ComputeHMAC(k, data) ==
    DigestToString(HmacSign(k.masterKey, TextEncoderEncode(data)))

Encrypt(k, iv, password) ==
    [iv |-> EncodeBuffer(iv),
     data |-> EncodeBuffer(AesGcmEncrypt(k.masterKey, iv, StringToBuffer(password)))]

Decrypt(k, encryptedData) ==
    LET r == AesGcmDecrypt(k.masterKey, DecodeBuffer(encryptedData.iv),
                           DecodeBuffer(encryptedData.data))
    IN  IF r.ok THEN [ok |-> TRUE, str |-> BufferToString(r.buf)]
                ELSE [ok |-> FALSE]

\* this.kvs[name]: an own property, else what the prototype chain gives
Lookup(k, name) ==
    IF name \in DOMAIN k.kvs THEN [t |-> "entry", e |-> k.kvs[name]]
    ELSE IF name = "__proto__"
         THEN IF k.proto = ObjectPrototype THEN [t |-> "builtin"]
              ELSE [t |-> "entry", e |-> k.proto]
    ELSE IF k.proto # ObjectPrototype /\ name \in {"encryptedData", "hmac"}
         THEN [t |-> "field"]
    ELSE IF name \in ObjectPrototypeProps THEN [t |-> "builtin"]
    ELSE Undefined

\* every object, function and non-empty string is truthy
Truthy(v) == v # Undefined

\* a get that returns what it decrypted without comparing the tags
KeychainGetUnverified(k, name) ==
    LET entry == Lookup(k, name) IN
    IF k.kvs = Undefined THEN Throws("TypeError")
    ELSE IF ~Truthy(entry) THEN Null
    ELSE IF entry.t # "entry" THEN Null
    ELSE LET dec == Decrypt(k, entry.e.encryptedData) IN
         IF ~dec.ok THEN Throws("OperationError")
         ELSE Returns(dec.str)

\* get
KeychainGet(k, name) ==
    LET entry == Lookup(k, name) IN
    IF k.kvs = Undefined THEN Throws("TypeError")
    ELSE IF ~Truthy(entry) THEN Null
    ELSE IF entry.t # "entry" THEN Null
    ELSE LET dec == Decrypt(k, entry.e.encryptedData) IN
         IF ~dec.ok THEN Throws("OperationError")
         ELSE IF ComputeHMAC(k, dec.str) # entry.e.hmac
              THEN Throws("HMAC verification failed!")
              ELSE Returns(Decrypt(k, entry.e.encryptedData).str)

\* an assignment that leaves the new entry as the only one
AssignAlone(k, name, entry) ==
    [k EXCEPT !.kvs = [d \in {name} |-> entry]]

\* this.kvs[name] = entry: assigning "__proto__" goes to the inherited setter
\* and replaces the prototype link, any other name defines an own property
Assign(k, name, entry) ==
    IF name = "__proto__" /\ name \notin DOMAIN k.kvs
    THEN [k EXCEPT !.proto = entry]
    ELSE [k EXCEPT !.kvs = [d \in DOMAIN k.kvs \cup {name} |->
                               IF d = name THEN entry ELSE k.kvs[d]]]

\* a set that keeps the value beside its ciphertext
KeychainSetKeepsValue(k, name, value, iv) ==
    LET encryptedData == Encrypt(k, iv, value)
        hmac == ComputeHMAC(k, value)
    IN  Assign(k, name, [encryptedData |-> encryptedData, hmac |-> hmac,
                         value |-> value])

\* set
KeychainSet(k, name, value, iv) ==
    LET encryptedData == Encrypt(k, iv, value)
        hmac == ComputeHMAC(k, value)
    IN  Assign(k, name, [encryptedData |-> encryptedData, hmac |-> hmac])

\* delete this.kvs[name]: removes an own property, touches nothing inherited
Delete(k, name) ==
    [k EXCEPT !.kvs = [d \in DOMAIN k.kvs \ {name} |-> k.kvs[d]]]

\* remove
KeychainRemove(k, name) ==
    IF Truthy(Lookup(k, name))
    THEN [keychain |-> Delete(k, name), out |-> ReturnsBool(TRUE)]
    ELSE [keychain |-> k, out |-> ReturnsBool(FALSE)]

\* a dump that serialises every field of the keychain
KeychainDumpAllFields(k) ==
    LET representation ==
            JsonStringify([kvs |-> k.kvs, masterKey |-> k.masterKey,
                           salt |-> EncodeBuffer(k.salt)])
        checksum == ComputeChecksum(representation)
    IN  [repr |-> representation, checksum |-> checksum]

\* dump
KeychainDump(k) ==
    LET representation ==
            JsonStringify([kvs |-> k.kvs, salt |-> EncodeBuffer(k.salt)])
        checksum == ComputeChecksum(representation)
    IN  [repr |-> representation, checksum |-> checksum]

\* a load that verifies the checksum only when one is given
KeychainLoadOptionalCheck(password, representation, trustedDataCheck) ==
    IF representation = Undefined
    THEN [keychain |-> NoKeychain,
          out |-> Throws("Invalid representation: Data is undefined")]
    ELSE IF ~Parsable(representation)
    THEN [keychain |-> NoKeychain, out |-> Throws("SyntaxError")]
    ELSE IF "salt" \notin DOMAIN JsonParse(representation)
    THEN [keychain |-> NoKeychain, out |-> Throws("InvalidCharacterError")]
    ELSE LET parsed == JsonParse(representation)
             salt == DecodeBuffer(parsed.salt)
             masterKey == DeriveKey(password, salt)
             computedChecksum == ComputeChecksum(representation)
         IN  IF trustedDataCheck # Undefined /\ computedChecksum # trustedDataCheck
             THEN [keychain |-> NoKeychain, out |-> Throws("Integrity check failed!")]
             ELSE [keychain |-> [kvs |-> Member(parsed, "kvs"),
                                 proto |-> ObjectPrototype,
                                 masterKey |-> masterKey, salt |-> salt],
                   out |-> ReturnsKeychain]

\* load
KeychainLoad(password, representation, trustedDataCheck) ==
    IF representation = Undefined
    THEN [keychain |-> NoKeychain,
          out |-> Throws("Invalid representation: Data is undefined")]
    ELSE IF ~Parsable(representation)
    THEN [keychain |-> NoKeychain, out |-> Throws("SyntaxError")]
    ELSE IF "salt" \notin DOMAIN JsonParse(representation)
    THEN [keychain |-> NoKeychain, out |-> Throws("InvalidCharacterError")]
    ELSE LET parsed == JsonParse(representation)
             salt == DecodeBuffer(parsed.salt)
             masterKey == DeriveKey(password, salt)
             computedChecksum == ComputeChecksum(representation)
         IN  IF computedChecksum # trustedDataCheck
             THEN [keychain |-> NoKeychain, out |-> Throws("Integrity check failed!")]
             ELSE [keychain |-> [kvs |-> Member(parsed, "kvs"),
                                 proto |-> ObjectPrototype,
                                 masterKey |-> masterKey, salt |-> salt],
                   out |-> ReturnsKeychain]

-----------------------------------------------------------------------------
(* The calls a client makes, and the adversary's edit of the store *)

Live(k) == kc[k] # NoKeychain

\* the arguments a client can hand to load: a representation and a checksum
\* returned by an earlier dump, a checksum that is no digest, or nothing
Representations == {Undefined} \cup {d.repr : d \in dumps}

Checksums ==
    {Undefined, [t |-> "string", text |-> "invalidchecksum"]}
        \cup {d.checksum : d \in dumps}

\* representations no dump returned: one without kvs, one without salt, and
\* a text that is no JSON
CraftedRepresentations ==
    {JsonStringify([salt |-> EncodeBuffer(salt)]) : salt \in Salts}
        \cup {JsonStringify([kvs |-> <<>>])}
        \cup {[t |-> "string", text |-> "{"]}

Init ==
    /\ kc = [k1 |-> NoKeychain, k2 |-> NoKeychain]
    /\ dumps = {}
    /\ nsets = 0
    /\ expected = [d \in Domains |-> None]
    /\ origin = None
    /\ tampered = {}
    /\ res = [op |-> "new"]
    /\ inflight = <<>>
    /\ userDatabase = <<>>
    /\ reqs = <<>>

\* Keychain.init(password)
InitKeychain(password, salt) ==
    /\ ~Live("k1")
    /\ kc' = [kc EXCEPT !.k1 = KeychainInit(password, salt)]
    /\ res' = [op |-> "init", out |-> ReturnsKeychain]
    /\ UNCHANGED <<dumps, nsets, expected, origin, tampered>>
    /\ UNCHANGED server

\* keychain.set(name, value), the iv being the random bytes it draws
Set(name, value, iv) ==
    /\ Live("k1")
    /\ kc' = [kc EXCEPT !.k1 = KeychainSet(kc.k1, name, value, iv)]
    /\ expected' = [expected EXCEPT ![name] = [val |-> value]]
    /\ tampered' = tampered \ {name}
    /\ res' = [op |-> "set", name |-> name]
    /\ UNCHANGED <<dumps, origin>>
    /\ UNCHANGED server

\* a set call of the session that dumps and restores, which counts its sets
CountedSet(name, value, iv) ==
    /\ nsets < MaxSets
    /\ Set(name, value, iv)
    /\ nsets' = nsets + 1

\* a set call of the session that never dumps
StoreSet(name, value, iv) ==
    /\ Set(name, value, iv)
    /\ UNCHANGED nsets

\* keychain.get(name) on either keychain
Get(k, name) ==
    /\ Live(k)
    /\ res' = [op |-> "get", k |-> k, name |-> name,
               out |-> KeychainGet(kc[k], name)]
    /\ UNCHANGED <<kc, dumps, nsets, expected, origin, tampered>>
    /\ UNCHANGED server

\* keychain.remove(name)
Remove(name) ==
    /\ Live("k1")
    /\ LET r == KeychainRemove(kc.k1, name) IN
        /\ kc' = [kc EXCEPT !.k1 = r.keychain]
        /\ res' = [op |-> "remove", name |-> name, out |-> r.out,
                   prior |-> expected[name], changed |-> r.keychain # kc.k1]
    /\ expected' = [expected EXCEPT ![name] = None]
    /\ tampered' = tampered \ {name}
    /\ UNCHANGED <<dumps, nsets, origin>>
    /\ UNCHANGED server

\* keychain.dump()
DumpKeychain ==
    /\ Live("k1")
    /\ LET d == KeychainDump(kc.k1)
           kept == dumps \cup {[repr |-> d.repr, checksum |-> d.checksum,
                                of |-> kc.k1]}
       IN
        /\ Cardinality(kept) <= MaxDumps
        /\ dumps' = kept
        /\ res' = [op |-> "dump", out |-> d]
    /\ UNCHANGED <<kc, nsets, expected, origin, tampered>>
    /\ UNCHANGED server

\* keychain.dump() whose result the client does not keep
StoreDump ==
    /\ Live("k1")
    /\ res' = [op |-> "dump", out |-> KeychainDump(kc.k1)]
    /\ UNCHANGED <<kc, dumps, nsets, expected, origin, tampered>>
    /\ UNCHANGED server

\* Keychain.load(password, representation, parsedContents, trustedDataCheck)
LoadKeychain(password, representation, trustedDataCheck) ==
    /\ Live("k1")
    /\ LET r == KeychainLoad(password, representation, trustedDataCheck) IN
        /\ kc' = [kc EXCEPT !.k2 = r.keychain]
        /\ origin' = IF r.keychain = NoKeychain THEN None
                      ELSE [password |-> password, repr |-> representation]
        /\ res' = [op |-> "load", password |-> password,
                   repr |-> representation, checksum |-> trustedDataCheck,
                   out |-> r.out]
    /\ UNCHANGED <<dumps, nsets, expected, tampered>>
    /\ UNCHANGED server

\* an adversary with write access to the store exchanges two records
SwapRecords(a, b) ==
    /\ Live("k1")
    /\ tampered = {}
    /\ a # b
    /\ {a, b} \subseteq DOMAIN kc.k1.kvs
    /\ kc.k1.kvs[a] # kc.k1.kvs[b]
    /\ kc' = [kc EXCEPT !.k1.kvs = [d \in DOMAIN kc.k1.kvs |->
                    IF d = a THEN kc.k1.kvs[b]
                    ELSE IF d = b THEN kc.k1.kvs[a] ELSE kc.k1.kvs[d]]]
    /\ tampered' = {a, b}
    /\ res' = [op |-> "swap"]
    /\ UNCHANGED <<dumps, nsets, expected, origin>>
    /\ UNCHANGED server

\* Calls on one keychain that overlap: an async method runs to its next
\* await and resumes in a later step, so the steps of several calls interleave.

\* the steps of call c that follow the pending one
Resume(c, call) ==
    /\ inflight' = [inflight EXCEPT ![c] = call]
    /\ UNCHANGED <<dumps, nsets, expected, origin, tampered, res,
                   userDatabase, reqs>>

\* keychain.set(name, value) up to the await of subtle.encrypt
SetStart(name, value, iv) ==
    /\ Live("k1")
    /\ Len(inflight) < MaxCalls
    /\ inflight' = Append(inflight, [op |-> "set", pc |-> "encrypt",
                                      name |-> name, value |-> value, iv |-> iv])
    /\ UNCHANGED <<kc, dumps, nsets, expected, origin, tampered, res,
                   userDatabase, reqs>>

\* encrypt has resolved; set goes on to the awaits of computeHMAC
SetEncrypted(c) ==
    /\ c \in DOMAIN inflight
    /\ inflight[c].op = "set"
    /\ inflight[c].pc = "encrypt"
    /\ Resume(c, [op |-> "set", pc |-> "hmac", name |-> inflight[c].name,
                  value |-> inflight[c].value,
                  encryptedData |->
                      Encrypt(kc.k1, inflight[c].iv, inflight[c].value)])
    /\ UNCHANGED kc

\* computeHMAC has resolved; set assigns the record and returns
SetStore(c) ==
    /\ c \in DOMAIN inflight
    /\ inflight[c].op = "set"
    /\ inflight[c].pc = "hmac"
    /\ LET encryptedData == inflight[c].encryptedData
           hmac == ComputeHMAC(kc.k1, inflight[c].value)
       IN
        /\ kc' = [kc EXCEPT !.k1 = Assign(kc.k1, inflight[c].name,
                        [encryptedData |-> encryptedData, hmac |-> hmac])]
        /\ Resume(c, [op |-> "set", pc |-> "done", name |-> inflight[c].name,
                      value |-> inflight[c].value,
                      encryptedData |-> encryptedData, hmac |-> hmac])

\* keychain.get(name) up to the await of the first decrypt: it reads the
\* entry, and returns null at once when there is none
GetStart(name) ==
    /\ Live("k1")
    /\ Len(inflight) < MaxCalls
    /\ LET entry == Lookup(kc.k1, name) IN
        inflight' = Append(inflight,
            IF ~Truthy(entry) \/ entry.t # "entry"
            THEN [op |-> "get", pc |-> "done", name |-> name, out |-> Null]
            ELSE [op |-> "get", pc |-> "decrypt", name |-> name,
                  entry |-> entry.e])
    /\ UNCHANGED <<kc, dumps, nsets, expected, origin, tampered, res,
                   userDatabase, reqs>>

\* the first decrypt has settled; get goes on to the awaits of computeHMAC
GetDecrypted(c) ==
    /\ c \in DOMAIN inflight
    /\ inflight[c].op = "get"
    /\ inflight[c].pc = "decrypt"
    /\ LET dec == Decrypt(kc.k1, inflight[c].entry.encryptedData) IN
        Resume(c, IF ~dec.ok
                  THEN [op |-> "get", pc |-> "done", name |-> inflight[c].name,
                        out |-> Throws("OperationError")]
                  ELSE [op |-> "get", pc |-> "verify", name |-> inflight[c].name,
                        entry |-> inflight[c].entry, str |-> dec.str])
    /\ UNCHANGED kc

\* computeHMAC has resolved; get compares the tags, decrypts again, returns
GetVerified(c) ==
    /\ c \in DOMAIN inflight
    /\ inflight[c].op = "get"
    /\ inflight[c].pc = "verify"
    /\ LET computedHMAC == ComputeHMAC(kc.k1, inflight[c].str) IN
        Resume(c, [op |-> "get", pc |-> "done", name |-> inflight[c].name,
                   out |-> IF computedHMAC # inflight[c].entry.hmac
                           THEN Throws("HMAC verification failed!")
                           ELSE Returns(Decrypt(kc.k1,
                                    inflight[c].entry.encryptedData).str)])
    /\ UNCHANGED kc

\* overlapping set and get calls on one keychain, and remove, which has no
\* await and so runs in one step
ConcNext ==
    \/ \E password \in InitPasswords, salt \in Salts : InitKeychain(password, salt)
    \/ \E name \in Domains, value \in Values, iv \in IVs :
            SetStart(name, value, iv)
    \/ \E c \in 1..MaxCalls : SetEncrypted(c)
    \/ \E c \in 1..MaxCalls : SetStore(c)
    \/ \E name \in Domains : GetStart(name)
    \/ \E c \in 1..MaxCalls : GetDecrypted(c)
    \/ \E c \in 1..MaxCalls : GetVerified(c)
    \/ \E name \in Domains : Remove(name)

ConcSpec == Init /\ [][ConcNext]_vars

\* The HTTP server: a handler runs to its next await and resumes in a later
\* step, so the handlers of several requests interleave.

\* userDatabase[username]: an own property, else what Object.prototype gives
UserLookup(username) ==
    IF username \in DOMAIN userDatabase
    THEN [t |-> "user", u |-> userDatabase[username]]
    ELSE IF username \in ObjectPrototypeProps THEN [t |-> "builtin"]
    ELSE Undefined

Response(status, message) == [status |-> status, message |-> message]

\* the passwords of the /setup requests answered 'User setup complete!' for
\* a username so far
SetupPasswords(username) ==
    {reqs[c].password : c \in {i \in DOMAIN reqs :
        /\ reqs[i].op = "setup"
        /\ reqs[i].pc = "done"
        /\ reqs[i].username = username
        /\ reqs[i].response.status = 200}}

\* the steps of request c that follow the pending one
Proceed(c, request) ==
    /\ reqs' = [reqs EXCEPT ![c] = request]
    /\ UNCHANGED <<kc, dumps, nsets, expected, origin, tampered, res, inflight>>

\* POST /setup up to the awaits of Keychain.init: the check for an existing
\* user, then the salt init draws
SetupStart(username, password, salt) ==
    /\ Len(reqs) < MaxRequests
    /\ reqs' = Append(reqs,
            IF Truthy(UserLookup(username))
            THEN [op |-> "setup", pc |-> "done", username |-> username,
                  password |-> password,
                  response |-> Response(400, "User already exists!")]
            ELSE [op |-> "setup", pc |-> "init", username |-> username,
                  password |-> password, salt |-> salt])
    /\ UNCHANGED <<kc, dumps, nsets, expected, origin, tampered, res,
                   inflight, userDatabase>>

\* Keychain.init has resolved; the handler goes on to the await of dump
SetupInitialised(c) ==
    /\ c \in DOMAIN reqs
    /\ reqs[c].op = "setup"
    /\ reqs[c].pc = "init"
    /\ Proceed(c, [op |-> "setup", pc |-> "dump",
                   username |-> reqs[c].username, password |-> reqs[c].password,
                   keychain |-> KeychainInit(reqs[c].password, reqs[c].salt)])
    /\ UNCHANGED userDatabase

\* dump has resolved; the handler writes the user and answers
SetupStored(c) ==
    /\ c \in DOMAIN reqs
    /\ reqs[c].op = "setup"
    /\ reqs[c].pc = "dump"
    /\ LET d == KeychainDump(reqs[c].keychain)
           user == [salt |-> reqs[c].keychain.salt, representation |-> d.repr,
                    checksum |-> d.checksum]
       IN  userDatabase' =
                [n \in DOMAIN userDatabase \cup {reqs[c].username} |->
                    IF n = reqs[c].username THEN user ELSE userDatabase[n]]
    /\ Proceed(c, [op |-> "setup", pc |-> "done",
                   username |-> reqs[c].username, password |-> reqs[c].password,
                   response |-> Response(200, "User setup complete!")])

\* the answer of /api/login for the user it read: JSON.parse of a missing
\* representation and a load that throws both end in the catch
LoginResponse(user, password) ==
    IF ~Truthy(user) THEN Response(404, "User not found!")
    ELSE IF user.t # "user" THEN Response(401, "Login failed!")
    ELSE IF KeychainLoad(password, user.u.representation, user.u.checksum).out
                = ReturnsKeychain
         THEN Response(200, "Login successful!")
         ELSE Response(401, "Login failed!")

\* POST /api/login: it reads the user before its only await, so what it
\* answers is settled when it arrives
Login(username, password) ==
    /\ Len(reqs) < MaxRequests
    /\ reqs' = Append(reqs,
            [op |-> "login", pc |-> "done", username |-> username,
             password |-> password,
             created |-> SetupPasswords(username),
             response |-> LoginResponse(UserLookup(username), password)])
    /\ UNCHANGED <<kc, dumps, nsets, expected, origin, tampered, res,
                   inflight, userDatabase>>

ServerNext ==
    \/ \E username \in Usernames, password \in Passwords, salt \in Salts :
            SetupStart(username, password, salt)
    \/ \E c \in 1..MaxRequests : SetupInitialised(c)
    \/ \E c \in 1..MaxRequests : SetupStored(c)
    \/ \E username \in Usernames, password \in Passwords :
            Login(username, password)

ServerSpec == Init /\ [][ServerNext]_vars

\* a session that stores, dumps and restores
Next ==
    \/ \E password \in InitPasswords, salt \in Salts : InitKeychain(password, salt)
    \/ \E name \in Domains, value \in Values, iv \in IVs :
            CountedSet(name, value, iv)
    \/ \E name \in Domains : Get("k2", name)
    \/ \E name \in Domains : Remove(name)
    \/ DumpKeychain
    \/ \E password \in Passwords, representation \in Representations,
          trustedDataCheck \in Checksums :
            LoadKeychain(password, representation, trustedDataCheck)

Spec == Init /\ [][Next]_vars

\* a session on one keychain whose store an adversary can edit
StoreNext ==
    \/ \E password \in InitPasswords, salt \in Salts : InitKeychain(password, salt)
    \/ \E name \in Domains, value \in Values, iv \in IVs :
            StoreSet(name, value, iv)
    \/ \E name \in Domains : Get("k1", name)
    \/ \E name \in Domains : Remove(name)
    \/ StoreDump
    \/ \E a \in Domains, b \in Domains : SwapRecords(a, b)

StoreSpec == Init /\ [][StoreNext]_vars

\* a session that restores from representations of any origin, each with
\* its own digest, a dump's checksum or none
LoadNext ==
    \/ \E password \in InitPasswords, salt \in Salts : InitKeychain(password, salt)
    \/ \E name \in Domains, value \in Values, iv \in IVs :
            CountedSet(name, value, iv)
    \/ DumpKeychain
    \/ \E password \in Passwords,
          representation \in Representations \cup CraftedRepresentations,
          trustedDataCheck \in Checksums \cup
                {ComputeChecksum(r) : r \in CraftedRepresentations} :
            LoadKeychain(password, representation, trustedDataCheck)
    \/ \E name \in Domains : Get("k2", name)

LoadSpec == Init /\ [][LoadNext]_vars

-----------------------------------------------------------------------------
(* Claims *)

\* the password a keychain's master key was derived from
MasterPassword(k) == k.masterKey.pbkdf2

\* the last call was get(name) on the initialised keychain
GotFromStore == res.op = "get" /\ res.k = "k1"

\* the last call was a load of a dumped representation with its own checksum
LoadedDump(d) ==
    res.op = "load" /\ res.repr = d.repr /\ res.checksum = d.checksum

\* C1: after set(domain, value), with no later set or remove on that domain
\* and no tampering, get(domain) returns exactly the value of the last set.
C1_SetThenGetReturnsValue ==
    (GotFromStore /\ expected[res.name] # None /\ res.name \notin tampered)
        => res.out = Returns(expected[res.name].val)

\* C2: load with a password other than the one the dumped keychain was made
\* with, given that keychain's representation and checksum, throws and
\* returns no keychain.
C2_WrongPasswordLoadRejected ==
    \A d \in dumps :
        (LoadedDump(d) /\ res.password # MasterPassword(d.of))
            => (res.out.kind = "throw" /\ kc.k2 = NoKeychain)

\* C3: no domain handed to set and still stored is a key of the kvs object
\* of the representation dump returns.
C3_NoPlaintextDomainInDump ==
    res.op = "dump" =>
        \A name \in Domains :
            expected[name] # None
                => name \notin DOMAIN JsonParse(res.out.repr).kvs

\* C4: after the stored records of two domains were swapped, get on either
\* of them fails.
C4_SwappedRecordsFail ==
    (GotFromStore /\ res.name \in tampered) => res.out.kind = "throw"

\* C5: load with the password of the dumped keychain, its representation and
\* its checksum returns a keychain whose get answers every domain as the
\* dumped keychain did.
C5_DumpLoadRoundTrip ==
    \A d \in dumps :
        (LoadedDump(d) /\ res.password = MasterPassword(d.of))
            => /\ res.out = ReturnsKeychain
               /\ \A name \in Domains :
                    KeychainGet(kc.k2, name) = KeychainGet(d.of, name)

\* C6: load of a dumped representation with a checksum argument other than
\* the checksum dump returned for it, a missing one included, fails with the
\* integrity error and returns no keychain.
C6_WrongChecksumRejected ==
    \A d \in dumps :
        (res.op = "load" /\ res.repr = d.repr /\ res.checksum # d.checksum)
            => (res.out = Throws("Integrity check failed!") /\ kc.k2 = NoKeychain)

C6_Witness ==
    /\ res.op = "load"
    /\ res.checksum = Undefined
    /\ res.out = Throws("Integrity check failed!")
    /\ \E d \in dumps : res.repr = d.repr /\ DOMAIN JsonParse(d.repr).kvs # {}

\* C7: load of a representation with the checksum dump returned for another
\* representation (an older dump with the newer checksum, or the reverse)
\* fails with the integrity error.
C7_RollbackRejected ==
    \A d \in dumps :
        (/\ res.op = "load"
         /\ res.repr # Undefined
         /\ res.repr # d.repr
         /\ res.checksum = d.checksum)
            => (res.out = Throws("Integrity check failed!") /\ kc.k2 = NoKeychain)

C7_Witness ==
    /\ res.op = "load"
    /\ res.out = Throws("Integrity check failed!")
    /\ \E old \in dumps, new \in dumps :
        /\ res.repr = old.repr
        /\ res.checksum = new.checksum
        /\ DOMAIN JsonParse(old.repr).kvs = {}
        /\ DOMAIN JsonParse(new.repr).kvs # {}

\* C8: on a keychain loaded with a password other than the one the dumped
\* keychain was made with, get never returns a value, and get on a domain
\* that has a record in the loaded store fails with an error.
C8_WrongPasswordGetFails ==
    (/\ res.op = "get"
     /\ res.k = "k2"
     /\ origin.password # MasterPassword(kc.k1))
        => /\ res.out.kind # "value"
           /\ res.name \in DOMAIN kc.k2.kvs => res.out.kind = "throw"

C8_Witness ==
    /\ res.op = "get"
    /\ res.k = "k2"
    /\ origin.password # MasterPassword(kc.k1)
    /\ res.name \in DOMAIN kc.k2.kvs
    /\ res.out = Throws("OperationError")

\* C9: get on a domain that was never set, or was removed and not set again,
\* returns null.
C9_AbsentDomainGivesNull ==
    (GotFromStore /\ expected[res.name] = None) => res.out = Null

\* C10: remove(domain) returns true exactly when a set on that domain has not
\* been followed by a remove, and a remove that finds nothing changes nothing.
C10_RemoveReportsPresence ==
    res.op = "remove" =>
        /\ res.out = ReturnsBool(res.prior # None)
        /\ res.prior = None => ~res.changed

\* the record get(name) finds on a keychain, if it finds one
Present(k, name) == Lookup(k, name).t = "entry"

\* C11: get on a present record whose stored tag differs from the tag
\* recomputed over the decrypted value, or whose ciphertext fails the
\* authenticated decryption, throws; get returns a value only when the stored
\* tag equals the tag of that value.
C11_GetVerifiesTag ==
    (res.op = "get" /\ Present(kc[res.k], res.name)) =>
        LET k == kc[res.k]
            entry == Lookup(k, res.name).e
            dec == Decrypt(k, entry.encryptedData)
        IN  /\ ~dec.ok => res.out.kind = "throw"
            /\ (dec.ok /\ ComputeHMAC(k, dec.str) # entry.hmac)
                    => res.out.kind = "throw"
            /\ res.out.kind = "value"
                    => (dec.ok /\ ComputeHMAC(k, res.out.str) = entry.hmac)

C11_Witness ==
    /\ res.op = "get"
    /\ Present(kc[res.k], res.name)
    /\ Decrypt(kc[res.k], Lookup(kc[res.k], res.name).e.encryptedData).ok
    /\ res.out = Throws("HMAC verification failed!")

\* a representation that is no JSON, or has no kvs or no salt
Malformed(representation) ==
    /\ representation # Undefined
    /\ \/ ~Parsable(representation)
       \/ ~({"kvs", "salt"} \subseteq DOMAIN JsonParse(representation))

\* C12: load of a representation that cannot be parsed, or that lacks kvs or
\* salt, throws and returns no keychain, whatever the checksum argument.
C12_MalformedLoadRejected ==
    (res.op = "load" /\ Malformed(res.repr))
        => (res.out.kind = "throw" /\ kc.k2 = NoKeychain)

\* the domains set and not removed since
Stored == {name \in Domains : expected[name] # None}

\* C13: the representation dump returns parses to an object with exactly the
\* keys kvs and salt, and its kvs holds exactly one entry per stored domain.
C13_OneEntryPerStoredDomain ==
    res.op = "dump" =>
        LET parsed == JsonParse(res.out.repr) IN
            /\ DOMAIN parsed = {"kvs", "salt"}
            /\ Cardinality(DOMAIN parsed.kvs) = Cardinality(Stored)

\* C14: every record of the representation dump returns holds exactly the
\* nonce, the ciphertext of the value under the master key and the tag of
\* the value keyed by the master key, and no field with the value itself.
C14_RecordsHoldNoPlaintext ==
    res.op = "dump" =>
        LET records == JsonParse(res.out.repr).kvs IN
        \A name \in DOMAIN records :
            LET e == records[name] IN
                /\ DOMAIN e = {"encryptedData", "hmac"}
                /\ DOMAIN e.encryptedData = {"iv", "data"}
                /\ DecodeBuffer(e.encryptedData.data).key = kc.k1.masterKey
                /\ e.hmac.utf8.key = kc.k1.masterKey

C14_Witness ==
    /\ res.op = "dump"
    /\ \E name \in DOMAIN JsonParse(res.out.repr).kvs :
            /\ expected[name] # None
            /\ Decrypt(kc.k1, JsonParse(res.out.repr).kvs[name].encryptedData).ok

\* C15: the master key is no field of the kvs object, of its records or of
\* the representation dump returns, which has the fields kvs and salt only,
\* kvs being the records of the store and salt the encoded salt.
C15_MasterKeyNotEmitted ==
    /\ Live("k1") =>
            \A name \in DOMAIN kc.k1.kvs :
                /\ kc.k1.kvs[name] # kc.k1.masterKey
                /\ \A f \in DOMAIN kc.k1.kvs[name] :
                        kc.k1.kvs[name][f] # kc.k1.masterKey
    /\ res.op = "dump" =>
            LET parsed == JsonParse(res.out.repr) IN
                /\ DOMAIN parsed = {"kvs", "salt"}
                /\ \A f \in DOMAIN parsed : parsed[f] # kc.k1.masterKey
                /\ parsed.kvs = kc.k1.kvs
                /\ parsed.salt = EncodeBuffer(kc.k1.salt)
                /\ res.out.checksum = ComputeChecksum(res.out.repr)

C15_Witness ==
    /\ res.op = "dump"
    /\ "service1" \in DOMAIN kc.k1.kvs
    /\ JsonParse(res.out.repr).salt = EncodeBuffer(kc.k1.salt)

\* the set calls that have started, and those that have stored their record
SetCalls == {c \in DOMAIN inflight : inflight[c].op = "set"}
StoredCalls == {c \in SetCalls : inflight[c].pc = "done"}

\* every present record is the ciphertext and the tag one set call on that
\* domain built
RecordsFromOneSet ==
    Live("k1") =>
        \A name \in Domains :
            Present(kc.k1, name) =>
                \E c \in StoredCalls :
                    /\ inflight[c].name = name
                    /\ Lookup(kc.k1, name).e =
                            [encryptedData |-> inflight[c].encryptedData,
                             hmac |-> inflight[c].hmac]

\* every value a get returned was handed to a set on that domain
GetReturnsSomeSetValue ==
    \A c \in DOMAIN inflight :
        (inflight[c].op = "get" /\ inflight[c].pc = "done"
            /\ inflight[c].out.kind = "value")
            => \E w \in SetCalls :
                    /\ inflight[w].name = inflight[c].name
                    /\ inflight[w].value = inflight[c].out.str

\* C16: with set, get and remove calls interleaving at their awaits, every
\* record present is the ciphertext and tag of one set call, and a get that
\* returns a value returns one handed to some set on that domain.
C16_InterleavedCallsStayConsistent ==
    RecordsFromOneSet /\ GetReturnsSomeSetValue

\* C17: /api/login for a user /setup created answers with success only for
\* the password given at /setup, and with status 401 for any other password.
C17_LoginNeedsSetupPassword ==
    \A c \in DOMAIN reqs :
        (/\ reqs[c].op = "login"
         /\ reqs[c].created # {}
         /\ reqs[c].password \notin reqs[c].created)
            => reqs[c].response.status = 401

\* C18: however /setup requests interleave, at most one of them per username
\* is answered 'User setup complete!', so that no written user is written
\* again.
C18_OneSetupPerUsername ==
    \A username \in Usernames :
        Cardinality({c \in DOMAIN reqs :
            /\ reqs[c].op = "setup"
            /\ reqs[c].pc = "done"
            /\ reqs[c].username = username
            /\ reqs[c].response = Response(200, "User setup complete!")}) <= 1

\* C19: a step of get or dump, and a step of remove that returns false,
\* leaves every keychain as it was (kvs, salt and master key); a step of set
\* or remove on one domain leaves what this.kvs holds for every other domain,
\* and what get answers for it, as they were.
C19_Frame ==
    [][/\ res'.op \in {"get", "dump"} => kc' = kc
       /\ (res'.op = "remove" /\ res'.out = ReturnsBool(FALSE)) => kc' = kc
       /\ res'.op \in {"set", "remove"} =>
            /\ kc'.k1.salt = kc.k1.salt
            /\ kc'.k1.masterKey = kc.k1.masterKey
            /\ \A other \in Domains \ {res'.name} :
                /\ Lookup(kc'.k1, other) = Lookup(kc.k1, other)
                /\ KeychainGet(kc'.k1, other) = KeychainGet(kc.k1, other)
      ]_vars

C19_Witness ==
    /\ res.op = "set"
    /\ \E other \in Domains \ {res.name} :
            /\ Present(kc.k1, other)
            /\ KeychainGet(kc.k1, other).kind = "value"

====
